---------------------------- MODULE Spec2Model ----------------------------
(***************************************************************************)
(* Air-quality sensor selection: the AQI calculator of sensor.py           *)
(* (_proper_round, _subtract, calculate_aqi), the Location value and       *)
(* get_distance of geocoding.py, and the selection pipeline find_sensors.  *)
(*                                                                         *)
(* Python floats are IEEE-754 binary64 values.  They are modelled exactly: *)
(* a float is a sign, a 53-bit mantissa and a binary exponent, and every   *)
(* float operation the code performs (parsing a decimal literal, *, /,     *)
(* int(), round(x, 9)) is computed with round-to-nearest-even on unbounded *)
(* naturals.  Naturals wider than the checker's integers are kept as       *)
(* little-endian sequences of limbs.                                       *)
(***************************************************************************)
EXTENDS Integers, Sequences, FiniteSets, TLC

(***************************************************************************)
(* The state of one caller of find_sensors and of the AQI calculator.       *)
(***************************************************************************)
VARIABLES
    rows,                   \* the heap: the rows by reference
    sensor_data,            \* the caller's list, the argument of find_sensors
    center, range_miles, threshold, n,
    pc,                     \* the statement of find_sensors to execute next
    working_sensors, outdoor_sensors, new_sensors, sensors_in_range,
    sorted_sensors, highest_aqi,
    position,               \* how many sensors the for loop of the sort has taken
    aqi_sorted_sensors, aqi_filtered_sensors, first_n_sensors,
    raised,                 \* the exception that ended the call, if one did
    calls,                  \* how many times the caller has called find_sensors
    earlier,                \* the outcome of the caller's first call
    fn, args, lits, out,    \* a call of one of the functions of the AQI calculator
    location,               \* the Location object a method is called on
    collaborator,           \* a collaborator the program has asked, with what came of it
    chosen_sensors, reverse_input,     \* the arguments of _get_sensor_info
    file_count, sensor_info,
    reverse_calls,          \* the reverse-geocoding objects _get_sensor_info has constructed
    stage,                  \* the statement of _get_sensor_info to execute next
    escaped                 \* the exception that ended _get_sensor_info, if one did

heap     == <<rows, sensor_data>>
params   == <<center, range_miles, threshold, n>>
filtered == <<working_sensors, outdoor_sensors, new_sensors, sensors_in_range>>
sorting  == <<sorted_sensors, highest_aqi, position>>
ranked   == <<aqi_sorted_sensors, aqi_filtered_sensors, first_n_sensors>>
caller   == <<calls, earlier>>
numeric  == <<fn, args, lits, out, location>>
pipeline == <<heap, params, pc, filtered, sorting, ranked, raised, caller>>
describing == <<collaborator, chosen_sensors, reverse_input, file_count, sensor_info,
                reverse_calls, stage, escaped>>
vars == <<pipeline, numeric, describing>>

(***************************************************************************)
(* Calls.  Op(f, a) is the call of the function named f with the arguments *)
(* a: the arguments are evaluated before the call is entered, as in        *)
(* Python.  The functions below call each other through Op.                *)
(***************************************************************************)
RECURSIVE Op(_, _)

(***************************************************************************)
(* Unbounded naturals (Python int magnitudes, float mantissas).            *)
(***************************************************************************)
LimbBits == 5 + 5
Base == 2 ^ LimbBits

Limb(a, i) == IF i >= 1 /\ i <= Len(a) THEN a[i] ELSE 0

\* a without its leading (high) zero limbs
BNorm(a) ==
    LET nz == {i \in 1..Len(a) : a[i] # 0}
    IN  IF nz = {} THEN <<>>
        ELSE SubSeq(a, 1, CHOOSE i \in nz : \A j \in nz : j <= i)

RECURSIVE BFromInt(_)
BFromInt(v) == IF v = 0 THEN <<>> ELSE <<v % Base>> \o BFromInt(v \div Base)

RECURSIVE BToInt(_)
BToInt(a) == IF a = <<>> THEN 0 ELSE a[1] + Base * BToInt(Tail(a))

\* a + b; the carry into limb i is generated at some lower limb j and
\* propagated by every limb between
BAdd(a, b) ==
    LET len  == IF Len(a) >= Len(b) THEN Len(a) ELSE Len(b)
        s(i) == Limb(a, i) + Limb(b, i)
        cy(i) == \E j \in 1..(i - 1) :
                    /\ s(j) >= Base
                    /\ \A k \in (j + 1)..(i - 1) : s(k) = Base - 1
        raw  == [i \in 1..(len + 1) |-> (s(i) + IF cy(i) THEN 1 ELSE 0) % Base]
    IN  IF raw[len + 1] = 0 THEN SubSeq(raw, 1, len) ELSE raw

\* a - b for a >= b; the borrow from limb i is raised at some lower limb j
\* and passed on by every limb between
BSub(a, b) ==
    LET d(i)  == Limb(a, i) - Limb(b, i)
        bw(i) == \E j \in 1..(i - 1) :
                    /\ d(j) < 0
                    /\ \A k \in (j + 1)..(i - 1) : d(k) = 0
    IN  BNorm([i \in 1..Len(a) |->
                 (d(i) - (IF bw(i) THEN 1 ELSE 0) + Base) % Base])

\* -1, 0, 1 as a < b, a = b, a > b: decided by the highest limb that differs
BCmp(a, b) ==
    IF Len(a) > Len(b) THEN 1
    ELSE IF Len(a) < Len(b) THEN -1
    ELSE LET differ == {i \in 1..Len(a) : a[i] # b[i]}
         IN  IF differ = {} THEN 0
             ELSE LET top == CHOOSE i \in differ : \A j \in differ : j <= i
                  IN  IF a[top] > b[top] THEN 1 ELSE -1

ShiftLimbs(a, count) == IF a = <<>> THEN <<>> ELSE [i \in 1..count |-> 0] \o a

\* a * k for a machine-sized k < Base: the low and the high halves of the
\* limb products are two naturals
BMulSmall(a, k) ==
    Op("BAdd", <<BNorm([i \in 1..Len(a) |-> (a[i] * k) % Base]),
                 ShiftLimbs(BNorm([i \in 1..Len(a) |-> (a[i] * k) \div Base]), 1)>>)

\* a * b for b of at most six limbs (a 53-bit mantissa, a power of ten up
\* to 10^18): the sum of the six shifted limb products
BMul(a, b) ==
    LET P(j) == ShiftLimbs(Op("BMulSmall", <<a, Limb(b, j)>>), j - 1)
        p12  == Op("BAdd", <<P(1), P(2)>>)
        p34  == Op("BAdd", <<P(3), P(4)>>)
        p56  == Op("BAdd", <<P(5), P(6)>>)
    IN  Op("BAdd", <<Op("BAdd", <<p12, p34>>), p56>>)

\* a % k for a machine-sized k < 2^21, from the highest limb down
RECURSIVE BModSmall(_, _)
BModSmall(a, k) ==
    IF a = <<>> THEN 0
    ELSE (BModSmall(Tail(a), k) * Base + a[1]) % k

\* a * 2^bits
BShl(a, bits) ==
    ShiftLimbs(Op("BMulSmall", <<a, 2 ^ (bits % LimbBits)>>), bits \div LimbBits)

\* floor(a / 2^bits)
BShr(a, bits) ==
    LET k == bits \div LimbBits
        r == bits % LimbBits
    IN  BNorm([i \in 1..(Len(a) - k) |->
                 (a[i + k] \div 2 ^ r) + (Limb(a, i + k + 1) % 2 ^ r) * 2 ^ (LimbBits - r)])

RECURSIVE IntBitLen(_)
IntBitLen(v) == IF v = 0 THEN 0 ELSE 1 + IntBitLen(v \div 2)

BBitLen(a) ==
    IF a = <<>> THEN 0 ELSE LimbBits * (Len(a) - 1) + IntBitLen(a[Len(a)])

\* greatest q < Base with d * q <= r, for r < d * Base.  The leading limbs
\* of r and d bracket q: with r = R * B^j + r0 and d = D * B^j + d0,
\* R \div (D + 1) <= q <= (R + 1) \div D, and the q that satisfy d * q <= r
\* are downward closed, so the rest of q is a count.
QDigit(r, d) ==
    LET len == Len(d)
        D   == Limb(d, len) * Base + Limb(d, len - 1)
        R   == (Limb(r, len + 1) * Base + Limb(r, len)) * Base + Limb(r, len - 1)
        qlo == R \div (D + 1)
        top == (R + 1) \div D
        qhi == IF top < Base THEN top ELSE Base - 1
    IN  qlo + Cardinality({c \in (qlo + 1)..qhi :
                              BCmp(Op("BMulSmall", <<d, c>>), r) <= 0})

\* one step of schoolbook long division: the running remainder hi.r takes the
\* next lower limb of the dividend and yields the next quotient limb
DivStep(hi, limb, d) ==
    IF hi.r = <<>> /\ limb = 0 THEN [q |-> ShiftLimbs(hi.q, 1), r |-> <<>>]
    ELSE LET cur == <<limb>> \o hi.r
             qd  == Op("QDigit", <<cur, d>>)
         IN  [q |-> IF hi.q = <<>> /\ qd = 0 THEN <<>> ELSE <<qd>> \o hi.q,
              r |-> Op("BSub", <<cur, Op("BMulSmall", <<d, qd>>)>>)]

\* quotient and remainder of num by den > 0.  The limbs of num above `top`
\* are less than den and start the remainder; BDivFrom(num, den, j) is the
\* division after the limbs of num down to the j-th have been taken.
BDivFrom(num, den, j) ==
    LET top == Len(num) - Len(den) + 1
    IN  IF j > top THEN [q |-> <<>>, r |-> SubSeq(num, top + 1, Len(num))]
        ELSE Op("DivStep", <<Op("BDivFrom", <<num, den, j + 1>>), num[j], den>>)

BDivMod(num, den) ==
    IF BCmp(num, den) < 0 THEN [q |-> <<>>, r |-> num]
    ELSE Op("BDivFrom", <<num, den, 1>>)

\* 10^s for s <= 18
BPow10(s) ==
    IF s <= 9 THEN BFromInt(10 ^ s)
    ELSE Op("BMul", <<BFromInt(10 ^ 9), BFromInt(10 ^ (s - 9))>>)

(***************************************************************************)
(* binary64 floats: value (-1)^neg * m * 2^e with m < 2^53 (m = <<>> is 0) *)
(***************************************************************************)
\* the binary scale k at which floor(num * 2^k / d) has 53 bits
FlScale(num, d) ==
    LET bl  == BBitLen(num) - BBitLen(d)
        big == IF bl >= 0 THEN BCmp(num, Op("BShl", <<d, bl>>)) >= 0
                          ELSE BCmp(Op("BShl", <<num, -bl>>), d) >= 0
    IN  IF big THEN 52 - bl ELSE 53 - bl

\* the quotient and remainder qr of a division by d1 at scale k, rounded to
\* the nearest mantissa, ties to even
FlRound(qr, d1, k) ==
    LET c  == BCmp(Op("BMulSmall", <<qr.r, 2>>), d1)
        up == c > 0 \/ (c = 0 /\ qr.q[1] % 2 = 1)
        m  == Op("BAdd", <<qr.q, IF up THEN <<1>> ELSE <<>>>>)
    IN  IF BBitLen(m) > 53 THEN [m |-> BShr(m, 1), e |-> 1 - k]
                           ELSE [m |-> m, e |-> -k]

FlScaled(num, d, k) ==
    LET n1 == IF k >= 0 THEN Op("BShl", <<num, k>>) ELSE num
        d1 == IF k >= 0 THEN d ELSE Op("BShl", <<d, -k>>)
    IN  Op("FlRound", <<Op("BDivMod", <<n1, d1>>), d1, k>>)

\* the float nearest to num / d (ties to even), for naturals num and d > 0
Fl(num, d) ==
    IF num = <<>> THEN [m |-> <<>>, e |-> 0]
    ELSE Op("FlScaled", <<num, d, FlScale(num, d)>>)

FZero == [neg |-> FALSE, m |-> <<>>, e |-> 0]

\* (-1)^sgn * (num / den) * 2^ex, rounded to a float
Float(sgn, num, den, ex) ==
    LET r == Op("Fl", <<num, den>>)
    IN  IF r.m = <<>> THEN FZero
        ELSE [neg |-> sgn, m |-> r.m, e |-> r.e + ex]

\* float(literal): the decimal literal [neg, int, frac, scale, more] is
\* int + frac / 10^scale + more / 10^(scale + 9), scale <= 9: 23.75 is int 23,
\* frac 75, scale 2, more 0.  The conversion is correctly rounded.
ParseFloat(lit) ==
    LET whole == Op("BMul", <<Op("BPow10", <<lit.scale>>), BFromInt(lit.int)>>)
        head  == Op("BAdd", <<whole, BFromInt(lit.frac)>>)
        long  == Op("BAdd", <<Op("BMul", <<head, Op("BPow10", <<9>>)>>),
                              BFromInt(lit.more)>>)
    IN  IF lit.more = 0
        THEN Op("Float", <<lit.neg, head, Op("BPow10", <<lit.scale>>), 0>>)
        ELSE Op("Float", <<lit.neg, long, Op("BPow10", <<lit.scale + 9>>), 0>>)

\* x * y
FMul(x, y) ==
    IF x.m = <<>> \/ y.m = <<>> THEN FZero
    ELSE Op("Float", <<x.neg # y.neg, Op("BMul", <<x.m, y.m>>), <<1>>, x.e + y.e>>)

\* x / y, y # 0
FDiv(x, y) ==
    IF x.m = <<>> THEN FZero
    ELSE Op("Float", <<x.neg # y.neg, x.m, y.m, x.e - y.e>>)

\* float(v) for a Python int v = [neg, mag]: exact below 2^53, rounded above
IntToFloat(v) ==
    IF v.mag = <<>> THEN FZero
    ELSE IF BBitLen(v.mag) <= 53 THEN [neg |-> v.neg, m |-> v.mag, e |-> 0]
    ELSE Op("Float", <<v.neg, v.mag, <<1>>, 0>>)

\* int(x): truncation toward zero, a Python int [neg, mag]
FTrunc(x) ==
    LET mag == IF x.e >= 0 THEN Op("BShl", <<x.m, x.e>>) ELSE BShr(x.m, -x.e)
    IN  [neg |-> x.neg /\ mag # <<>>, mag |-> mag]

\* -1, 0, 1 as |x| < |y|, |x| = |y|, |x| > |y|
FCmpMag(x, y) ==
    IF x.m = <<>> THEN (IF y.m = <<>> THEN 0 ELSE -1)
    ELSE IF y.m = <<>> THEN 1
    ELSE LET bx == BBitLen(x.m) + x.e
             by == BBitLen(y.m) + y.e
         IN  IF bx > by THEN 1
             ELSE IF bx < by THEN -1
             ELSE IF x.e >= y.e THEN BCmp(Op("BShl", <<x.m, x.e - y.e>>), y.m)
             ELSE BCmp(x.m, Op("BShl", <<y.m, y.e - x.e>>))

FCmp(x, y) ==
    LET mag == Op("FCmpMag", <<x, y>>)
    IN  IF x.neg /\ ~y.neg THEN -1
        ELSE IF ~x.neg /\ y.neg THEN 1
        ELSE IF x.neg THEN -mag
        ELSE mag

FGe(x, y) == Op("FCmp", <<x, y>>) >= 0
FLt(x, y) == Op("FCmp", <<x, y>>) < 0
FLe(x, y) == Op("FCmp", <<x, y>>) <= 0
FEq(x, y) == Op("FCmp", <<x, y>>) = 0

FNeg(x) == IF x.m = <<>> THEN FZero ELSE [x EXCEPT !.neg = ~x.neg]
FAbs(x) == [x EXCEPT !.neg = FALSE]

\* round(x, nd): the float nearest to x rounded half-even to nd decimals
FRound(x, nd) ==
    IF x.m = <<>> THEN FZero ELSE
    LET p   == Op("BMul", <<x.m, Op("BPow10", <<nd>>)>>)
        q   == IF x.e >= 0 THEN Op("BShl", <<p, x.e>>) ELSE BShr(p, -x.e)
        rem == IF x.e >= 0 THEN <<>> ELSE Op("BSub", <<p, Op("BShl", <<q, -x.e>>)>>)
        c   == IF x.e >= 0 THEN -1
               ELSE BCmp(Op("BMulSmall", <<rem, 2>>), Op("BShl", <<<<1>>, -x.e>>))
        up  == c > 0 \/ (c = 0 /\ Limb(q, 1) % 2 = 1)
        r   == IF up THEN Op("BAdd", <<q, <<1>>>>) ELSE q
    IN  Op("Float", <<x.neg, r, Op("BPow10", <<nd>>), 0>>)

\* Python int arithmetic on [neg, mag]
IntOf(k) == [neg |-> k < 0, mag |-> BFromInt(IF k < 0 THEN -k ELSE k)]

ISub(a, b) ==
    IF a.neg = b.neg
    THEN (IF BCmp(a.mag, b.mag) >= 0
          THEN [neg |-> a.neg /\ a.mag # b.mag, mag |-> Op("BSub", <<a.mag, b.mag>>)]
          ELSE [neg |-> ~a.neg, mag |-> Op("BSub", <<b.mag, a.mag>>)])
    ELSE [neg |-> a.neg, mag |-> Op("BAdd", <<a.mag, b.mag>>)]

\* v % k for a Python int v and machine-sized k > 0 (result in 0..k-1)
IMod(v, k) ==
    LET r == BModSmall(v.mag, k)
    IN  IF v.neg /\ r # 0 THEN k - r ELSE r

\* a Python int that fits the checker's integers
IToInt(v) == IF v.neg THEN -BToInt(v.mag) ELSE BToInt(v.mag)

\* x - y, the native float subtraction
FSub(x, y) ==
    LET lo == IF x.e <= y.e THEN x.e ELSE y.e
        mx == [neg |-> x.neg, mag |-> Op("BShl", <<x.m, x.e - lo>>)]
        my == [neg |-> y.neg, mag |-> Op("BShl", <<y.m, y.e - lo>>)]
        df == Op("ISub", <<mx, my>>)
    IN  Op("Float", <<df.neg, df.mag, <<1>>, lo>>)

\* x + y
FAdd(x, y) == Op("FSub", <<x, FNeg(y)>>)

(***************************************************************************)
(* Optional values: Python's None, a JSON null                             *)
(***************************************************************************)
None == <<>>
Some(v) == <<v>>
Val(o) == o[1]

(***************************************************************************)
(* sensor.py: the AQI calculator                                           *)
(***************************************************************************)
\* decimal literals of the source and of the feed: Dec(23, 75, 2) is 23.75,
\* DecLong(49, 495, 3, 100) is 49.495000000100, Neg(Dec(1, 0, 1)) is -1.0
Dec(ip, fd, sc) ==
    [neg |-> FALSE, int |-> ip, frac |-> fd, scale |-> sc, more |-> 0]
DecLong(ip, fd, sc, mr) ==
    [neg |-> FALSE, int |-> ip, frac |-> fd, scale |-> sc, more |-> mr]
Neg(lit) == [lit EXCEPT !.neg = TRUE]

\* the float an int operand is converted to in mixed arithmetic
OfInt(k) == Op("IntToFloat", <<IntOf(k)>>)

F1e9 == Op("Float", <<FALSE, BFromInt(10 ^ 9), <<1>>, 0>>)

_proper_round(num) ==
    LET tenth_digit == IMod(Op("FTrunc", <<Op("FMul", <<num, OfInt(10)>>)>>), 10)
    IN  IF tenth_digit < 5
        THEN IToInt(Op("FTrunc", <<num>>))
        ELSE IToInt(Op("FTrunc", <<num>>)) + 1

_subtract(num1, num2) ==
    LET int_num1 == Op("FTrunc", <<Op("FMul", <<num1, F1e9>>)>>)
        int_num2 == Op("FTrunc", <<Op("FMul", <<num2, F1e9>>)>>)
        diff     == Op("ISub", <<int_num1, int_num2>>)
        quot     == Op("FDiv", <<Op("IntToFloat", <<diff>>), F1e9>>)
    IN  Op("FRound", <<quot, 9>>)

\* the breakpoints of calculate_aqi
Pm0     == Op("ParseFloat", <<Dec(0, 0, 1)>>)
Pm12_1  == Op("ParseFloat", <<Dec(12, 1, 1)>>)
Pm35_5  == Op("ParseFloat", <<Dec(35, 5, 1)>>)
Pm55_5  == Op("ParseFloat", <<Dec(55, 5, 1)>>)
Pm150_5 == Op("ParseFloat", <<Dec(150, 5, 1)>>)
Pm250_5 == Op("ParseFloat", <<Dec(250, 5, 1)>>)
Pm350_5 == Op("ParseFloat", <<Dec(350, 5, 1)>>)
Pm500_5 == Op("ParseFloat", <<Dec(500, 5, 1)>>)
\* the concentration spans the offsets are divided by
W12_0   == Op("ParseFloat", <<Dec(12, 0, 1)>>)
W23_3   == Op("ParseFloat", <<Dec(23, 3, 1)>>)
W19_9   == Op("ParseFloat", <<Dec(19, 9, 1)>>)
W94_9   == Op("ParseFloat", <<Dec(94, 9, 1)>>)
W99_9   == Op("ParseFloat", <<Dec(99, 9, 1)>>)
W149_9  == Op("ParseFloat", <<Dec(149, 9, 1)>>)

\* an elif branch that forgets the AQI the band starts at
BandOffsetOnly(pm, lo, span, width, low) ==
    LET pm_offset == Op("_subtract", <<pm, lo>>)
        quot      == Op("FDiv", <<Op("FMul", <<pm_offset, OfInt(span)>>), width>>)
    IN  Op("_proper_round", <<quot>>)

\* one elif branch: pm_offset = _subtract(pm, lo);
\* aqi = _proper_round(pm_offset * span / width) + low
Band(pm, lo, span, width, low) ==
    LET pm_offset == Op("_subtract", <<pm, lo>>)
        quot      == Op("FDiv", <<Op("FMul", <<pm_offset, OfInt(span)>>), width>>)
    IN  Op("_proper_round", <<quot>>) + low

\* a band's condition with the lower end excluded: pm > lo and pm < hi
InBandOpen(pm, lo, hi) == ~FLe(pm, lo) /\ FLt(pm, hi)

\* a band's condition with the upper end included: pm >= lo and pm <= hi
InBandClosed(pm, lo, hi) == FGe(pm, lo) /\ FLe(pm, hi)

\* a band's condition: pm >= lo and pm < hi
InBand(pm, lo, hi) == FGe(pm, lo) /\ FLt(pm, hi)

calculate_aqi(pm) ==
    IF Op("InBand", <<pm, Pm0, Pm12_1>>)
    THEN Some(Op("_proper_round",
                 <<Op("FDiv", <<Op("FMul", <<pm, OfInt(50)>>), W12_0>>)>>))
    ELSE IF Op("InBand", <<pm, Pm12_1, Pm35_5>>)
    THEN Some(Op("Band", <<pm, Pm12_1, 49, W23_3, 51>>))
    ELSE IF Op("InBand", <<pm, Pm35_5, Pm55_5>>)
    THEN Some(Op("Band", <<pm, Pm35_5, 49, W19_9, 101>>))
    ELSE IF Op("InBand", <<pm, Pm55_5, Pm150_5>>)
    THEN Some(Op("Band", <<pm, Pm55_5, 49, W94_9, 151>>))
    ELSE IF Op("InBand", <<pm, Pm150_5, Pm250_5>>)
    THEN Some(Op("Band", <<pm, Pm150_5, 99, W99_9, 201>>))
    ELSE IF Op("InBand", <<pm, Pm250_5, Pm350_5>>)
    THEN Some(Op("Band", <<pm, Pm250_5, 99, W99_9, 301>>))
    ELSE IF Op("InBand", <<pm, Pm350_5, Pm500_5>>)
    THEN Some(Op("Band", <<pm, Pm350_5, 99, W149_9, 401>>))
    ELSE IF FGe(pm, Pm500_5)
    THEN Some(501)
    ELSE None

(***************************************************************************)
(* geocoding.py: locations and the distance between them                   *)
(***************************************************************************)
directions == [lat |-> <<"N", "S">>, lon |-> <<"E", "W">>]

\* directions[axis][distance != val]: False indexes the first, True the second
_get_position(val, axis) ==
    LET distance  == FAbs(val)
        direction == directions[axis][IF ~FEq(distance, val) THEN 2 ELSE 1]
    IN  [distance |-> distance, direction |-> direction]

Location(lat, lon) ==
    LET lat_position == Op("_get_position", <<lat, "lat">>)
        lon_position == Op("_get_position", <<lon, "lon">>)
    IN  [_coordinate |-> [lat |-> lat_position, lon |-> lon_position]]

\* get_lat with the sign taken for the northern direction
get_lat_swapped(self) ==
    LET lat      == self._coordinate.lat
        dir_sign == IF lat.direction = directions["lat"][1] THEN -1 ELSE 1
    IN  Op("FMul", <<OfInt(dir_sign), lat.distance>>)

get_lat(self) ==
    LET lat      == self._coordinate.lat
        dir_sign == IF lat.direction = directions["lat"][2] THEN -1 ELSE 1
    IN  Op("FMul", <<OfInt(dir_sign), lat.distance>>)

get_lon(self) ==
    LET lon      == self._coordinate.lon
        dir_sign == IF lon.direction = directions["lon"][2] THEN -1 ELSE 1
    IN  Op("FMul", <<OfInt(dir_sign), lon.distance>>)

\* math.pi, the float 884279719003555 / 2^48
M_PI ==
    LET mantissa == Op("BAdd", <<Op("BMul", <<BFromInt(884279719), BFromInt(10 ^ 6)>>),
                                 BFromInt(3555)>>)
    IN  Op("Float", <<FALSE, mantissa, Op("BShl", <<<<1>>, 48>>), 0>>)

\* math.radians(x) is x * (pi / 180)
degToRad == Op("FDiv", <<M_PI, OfInt(180)>>)
radians(x) == Op("FMul", <<x, degToRad>>)

\* math.cos, modelled where it is exact: cos(0.0) is 1.0
cos(a) == CASE a.m = <<>> -> OfInt(1)

\* r is math.sqrt(y), the float nearest to the root of y: y lies between the
\* squares of the midpoints from r to its neighbouring floats
IsSqrt(r, y) ==
    IF y.m = <<>> THEN r.m = <<>>
    ELSE /\ r.m # <<>>
         /\ ~r.neg
         /\ LET s     == 53 - BBitLen(r.m)
                twice == Op("BMulSmall", <<Op("BShl", <<r.m, s>>), 2>>)
                below == Op("BSub", <<twice, <<1>>>>)
                above == Op("BAdd", <<twice, <<1>>>>)
                e2    == 2 * (r.e - s - 1)
                base  == IF e2 <= y.e THEN e2 ELSE y.e
                Y     == Op("BShl", <<y.m, y.e - base>>)
                lower == Op("BShl", <<Op("BMul", <<below, below>>), e2 - base>>)
                upper == Op("BShl", <<Op("BMul", <<above, above>>), e2 - base>>)
            IN  BCmp(lower, Y) <= 0 /\ BCmp(Y, upper) <= 0

\* math.sqrt(x ** 2 + dlat ** 2), modelled where one of the legs is the
\* root: on a meridian (dlon = 0, so x = 0) or along the equator (dlat = 0)
hypot(x, dlat) ==
    LET sq == Op("FAdd", <<Op("FMul", <<x, x>>), Op("FMul", <<dlat, dlat>>)>>)
    IN  CHOOSE r \in {FAbs(x), FAbs(dlat)} : Op("IsSqrt", <<r, sq>>)

R == Op("ParseFloat", <<Dec(3958, 8, 1)>>)

get_distance(loc1, loc2) ==
    LET lat1_rads == Op("radians", <<Op("get_lat", <<loc1>>)>>)
        lat2_rads == Op("radians", <<Op("get_lat", <<loc2>>)>>)
        lon1_rads == Op("radians", <<Op("get_lon", <<loc1>>)>>)
        lon2_rads == Op("radians", <<Op("get_lon", <<loc2>>)>>)
        dlat      == Op("FSub", <<lat1_rads, lat2_rads>>)
        dlon      == Op("FSub", <<lon1_rads, lon2_rads>>)
        alat      == Op("FDiv", <<Op("FAdd", <<lat1_rads, lat2_rads>>), OfInt(2)>>)
        x         == IF dlon.m = <<>> THEN FZero
                     ELSE Op("FMul", <<dlon, Op("cos", <<alat>>)>>)
    IN  Op("FMul", <<Op("hypot", <<x, dlat>>), R>>)

(***************************************************************************)
(* The feed.  A sensor is a JSON row of which the program reads the        *)
(* elements 1 (pm), 4 (age), 25 (type), 27 (lat) and 28 (lon); a JSON null *)
(* is None, a number v is Some(v).  The rows live on the heap: lists hold  *)
(* references to them (their identities), never copies.                    *)
(***************************************************************************)
Row(pm, age, type, lat, lon) ==
    (1 :> pm @@ 4 :> age @@ 25 :> type @@ 27 :> lat @@ 28 :> lon)

Num(lit) == Some(Op("ParseFloat", <<lit>>))

\* the center of the search and the meridian the catalogued sensors stand on
CenterLat == Op("ParseFloat", <<Dec(33, 6432, 4)>>)
CenterLon == Op("ParseFloat", <<Neg(Dec(117, 8419, 4))>>)
OnMeridian == Some(CenterLon)

\* The rows feeds are made of.  34.06291749163368 N is exactly 29.0 miles
\* from the center and 34.0629175 N is just beyond; 12.0 and 12.04 both
\* have the AQI 50.
Catalog ==
    << Row(Num(Dec(40, 0, 1)), Some(100), Some(0),
           Num(DecLong(34, 62917491, 9, 633680000)), OnMeridian),
       Row(Num(Dec(12, 0, 1)), Some(3600), Some(0), Some(CenterLat), OnMeridian),
       Row(Num(Dec(12, 4, 2)), Some(0), Some(0), Some(CenterLat), OnMeridian),
       Row(Num(Dec(23, 75, 2)), Some(10), Some(0), Num(Dec(33, 7, 1)), OnMeridian),
       Row(None, Some(10), Some(0), Some(CenterLat), OnMeridian),
       Row(Num(Dec(99, 9, 1)), Some(10), Some(1), Num(Dec(35, 0, 1)), OnMeridian),
       Row(Num(Dec(99, 9, 1)), Some(3601), Some(0), Some(CenterLat), OnMeridian),
       Row(Num(Dec(99, 9, 1)), Some(10), Some(0), Num(Dec(34, 629175, 7)), OnMeridian),
       Row(Num(Neg(Dec(1, 0, 1))), Some(10), Some(0), Some(CenterLat), OnMeridian) >>

MaxFeed == 3
MaxCount == 2

\* the lists of at most MaxFeed distinct references
Feeds ==
    LET ids == DOMAIN Op("Catalog", <<>>)
    IN  UNION {{f \in [1..k -> ids] : \A i, j \in 1..k : f[i] = f[j] => i = j}
                 : k \in 0..MaxFeed}

Centers == {Op("Location", <<CenterLat, CenterLon>>)}
Radii == {28, 29}
Thresholds == {50, 51}

\* calculate_aqi and get_distance are pure: their values on the catalogued
\* concentrations and places are computed once, as argument-value pairs
PmValues(catalog) ==
    {Val(catalog[i][1]) : i \in {j \in DOMAIN catalog : catalog[j][1] # None}}
AqiMemo ==
    {<<pm, Op("calculate_aqi", <<pm>>)>> : pm \in PmValues(Op("Catalog", <<>>))}

Places(catalog) ==
    {Op("Location", <<Val(catalog[i][27]), Val(catalog[i][28])>>) :
        i \in {j \in DOMAIN catalog : catalog[j][27] # None /\ catalog[j][28] # None}}
DistanceMemo ==
    {<<<<c, p>>, Op("get_distance", <<c, p>>)>> :
        c \in Centers, p \in Places(Op("Catalog", <<>>))}

Lookup(memo, arg) == (CHOOSE pair \in memo : pair[1] = arg)[2]

\* the call of f with the evaluated arguments a; a call without arguments is
\* the value of a table of the feed
Op(f, a) ==
    IF a = <<>>
    THEN CASE f = "Catalog"      -> Catalog
           [] f = "Feeds"        -> Feeds
           [] f = "Centers"      -> Centers
           [] f = "AqiMemo"      -> AqiMemo
           [] f = "DistanceMemo" -> DistanceMemo
    ELSE CASE f = "BAdd"          -> BAdd(a[1], a[2])
           [] f = "BMulSmall"     -> BMulSmall(a[1], a[2])
           [] f = "BSub"          -> BSub(a[1], a[2])
           [] f = "BShl"          -> BShl(a[1], a[2])
           [] f = "BMul"          -> BMul(a[1], a[2])
           [] f = "QDigit"        -> QDigit(a[1], a[2])
           [] f = "DivStep"       -> DivStep(a[1], a[2], a[3])
           [] f = "BDivFrom"      -> BDivFrom(a[1], a[2], a[3])
           [] f = "BDivMod"       -> BDivMod(a[1], a[2])
           [] f = "BPow10"        -> BPow10(a[1])
           [] f = "FlRound"       -> FlRound(a[1], a[2], a[3])
           [] f = "FlScaled"      -> FlScaled(a[1], a[2], a[3])
           [] f = "Fl"            -> Fl(a[1], a[2])
           [] f = "Float"         -> Float(a[1], a[2], a[3], a[4])
           [] f = "ParseFloat"    -> ParseFloat(a[1])
           [] f = "FMul"          -> FMul(a[1], a[2])
           [] f = "FDiv"          -> FDiv(a[1], a[2])
           [] f = "FSub"          -> FSub(a[1], a[2])
           [] f = "FAdd"          -> FAdd(a[1], a[2])
           [] f = "FRound"        -> FRound(a[1], a[2])
           [] f = "FTrunc"        -> FTrunc(a[1])
           [] f = "FCmpMag"       -> FCmpMag(a[1], a[2])
           [] f = "FCmp"          -> FCmp(a[1], a[2])
           [] f = "FLe"           -> FLe(a[1], a[2])
           [] f = "IntToFloat"    -> IntToFloat(a[1])
           [] f = "OfInt"         -> OfInt(a[1])
           [] f = "ISub"          -> ISub(a[1], a[2])
           [] f = "_proper_round" -> _proper_round(a[1])
           [] f = "_subtract"     -> _subtract(a[1], a[2])
           [] f = "Band"          -> Band(a[1], a[2], a[3], a[4], a[5])
           [] f = "InBand"        -> InBand(a[1], a[2], a[3])
           [] f = "calculate_aqi" -> calculate_aqi(a[1])
           [] f = "_get_position" -> _get_position(a[1], a[2])
           [] f = "Location"      -> Location(a[1], a[2])
           [] f = "get_lat"       -> get_lat(a[1])
           [] f = "get_lon"       -> get_lon(a[1])
           [] f = "radians"       -> radians(a[1])
           [] f = "cos"           -> cos(a[1])
           [] f = "IsSqrt"        -> IsSqrt(a[1], a[2])
           [] f = "hypot"         -> hypot(a[1], a[2])
           [] f = "get_distance"  -> get_distance(a[1], a[2])

(***************************************************************************)
(* sensor.py: the selection pipeline.  A call of find_sensors is in        *)
(* progress from Call until `returned` or `raised`; each stage is a step,  *)
(* and the scan of _sort_by_aqi takes one step for each sensor.            *)
(***************************************************************************)

Return(v) == [raised |-> None, value |-> v]
Raise(e)  == [raised |-> Some(e), value |-> <<>>]

\* calculate_aqi(sensor[1])
Aqi(sensor) == Lookup(Op("AqiMemo", <<>>), Val(rows[sensor][1]))

_remove_null_sensors(sensors) ==
    SelectSeq(sensors, LAMBDA sensor :
        ~(\/ rows[sensor][1] = None
          \/ rows[sensor][4] = None
          \/ rows[sensor][25] = None
          \/ rows[sensor][27] = None
          \/ rows[sensor][28] = None))

_remove_indoor_sensors(sensors) ==
    SelectSeq(sensors, LAMBDA sensor : ~(Val(rows[sensor][25]) = 1))

\* _remove_old_sensors with the limit one second late
_remove_old_sensors_late(sensors) ==
    SelectSeq(sensors, LAMBDA sensor : ~(Val(rows[sensor][4]) > 3601))

_remove_old_sensors(sensors) ==
    SelectSeq(sensors, LAMBDA sensor : ~(Val(rows[sensor][4]) > 3600))

_filter_by_range(sensors, center_, range_miles_) ==
    SelectSeq(sensors, LAMBDA sensor :
        LET sensor_location == Op("Location", <<Val(rows[sensor][27]), Val(rows[sensor][28])>>)
            distance        == Lookup(Op("DistanceMemo", <<>>), <<center_, sensor_location>>)
        IN  Op("FLe", <<distance, Op("OfInt", <<range_miles_>>)>>))

\* aqi < threshold raises TypeError when aqi is None
_filter_by_aqi(sensors, threshold_) ==
    IF \E i \in 1..Len(sensors) : Aqi(sensors[i]) = None
    THEN Raise("TypeError")
    ELSE Return(SelectSeq(sensors, LAMBDA sensor : ~(Val(Aqi(sensor)) < threshold_)))

\* the loop appends while count < n and returns at the first element beyond
_get_n_elements(elements, n_) ==
    LET count == IF n_ < 0 THEN 0 ELSE IF n_ < Len(elements) THEN n_ ELSE Len(elements)
    IN  SubSeq(elements, 1, count)

\* list.insert(index, x), index counted from 0
Insert(list, index, x) ==
    SubSeq(list, 1, index) \o <<x>> \o SubSeq(list, index + 1, Len(list))

Init ==
    /\ rows = Op("Catalog", <<>>)
    /\ sensor_data = <<>>
    /\ center = None
    /\ range_miles = 0
    /\ threshold = 0
    /\ n = 0
    /\ pc = "idle"
    /\ working_sensors = <<>>
    /\ outdoor_sensors = <<>>
    /\ new_sensors = <<>>
    /\ sensors_in_range = <<>>
    /\ sorted_sensors = <<>>
    /\ highest_aqi = 0
    /\ position = 0
    /\ aqi_sorted_sensors = <<>>
    /\ aqi_filtered_sensors = <<>>
    /\ first_n_sensors = <<>>
    /\ raised = None
    /\ calls = 0
    /\ earlier = None
    /\ fn = "idle"
    /\ args = <<>>
    /\ lits = <<>>
    /\ out = None
    /\ location = None
    /\ collaborator = None
    /\ chosen_sensors = <<>>
    /\ reverse_input = <<"nominatim", <<>>>>
    /\ file_count = 0
    /\ sensor_info = <<>>
    /\ reverse_calls = <<>>
    /\ stage = "idle"
    /\ escaped = None

\* the caller calls find_sensors(center, range_miles, threshold, n, sensor_data)
Call ==
    /\ pc = "idle"
    /\ calls = 0
    /\ \E feed \in Op("Feeds", <<>>), c \in Op("Centers", <<>>), r \in Radii, t \in Thresholds, k \in 0..MaxCount :
          /\ sensor_data' = feed
          /\ center' = c
          /\ range_miles' = r
          /\ threshold' = t
          /\ n' = k
    /\ calls' = 1
    /\ pc' = "_remove_null_sensors"
    /\ UNCHANGED <<rows, filtered, sorting, ranked, raised, earlier, numeric, describing>>

\* what a call that has ended gave its caller
Outcome == [raised |-> raised, value |-> IF pc = "returned" THEN first_n_sensors ELSE <<>>]

\* the caller calls find_sensors a second time with the same arguments
CallAgain ==
    /\ pc \in {"returned", "raised"}
    /\ calls = 1
    /\ earlier' = Some(Outcome)
    /\ calls' = 2
    /\ raised' = None
    /\ pc' = "_remove_null_sensors"
    /\ UNCHANGED <<heap, params, filtered, sorting, ranked, numeric, describing>>

\* a first stage that filters the caller's list in place
RemoveNullInPlace ==
    /\ pc = "_remove_null_sensors"
    /\ sensor_data' = _remove_null_sensors(sensor_data)
    /\ working_sensors' = _remove_null_sensors(sensor_data)
    /\ pc' = "_remove_indoor_sensors"
    /\ UNCHANGED <<rows, params, outdoor_sensors, new_sensors, sensors_in_range,
                   sorting, ranked, raised, caller, numeric, describing>>

RemoveNull ==
    /\ pc = "_remove_null_sensors"
    /\ working_sensors' = _remove_null_sensors(sensor_data)
    /\ pc' = "_remove_indoor_sensors"
    /\ UNCHANGED <<heap, params, outdoor_sensors, new_sensors, sensors_in_range,
                   sorting, ranked, raised, caller, numeric, describing>>

RemoveIndoor ==
    /\ pc = "_remove_indoor_sensors"
    /\ outdoor_sensors' = _remove_indoor_sensors(working_sensors)
    /\ pc' = "_remove_old_sensors"
    /\ UNCHANGED <<heap, params, working_sensors, new_sensors, sensors_in_range,
                   sorting, ranked, raised, caller, numeric, describing>>

RemoveOld ==
    /\ pc = "_remove_old_sensors"
    /\ new_sensors' = _remove_old_sensors(outdoor_sensors)
    /\ pc' = "_filter_by_range"
    /\ UNCHANGED <<heap, params, working_sensors, outdoor_sensors, sensors_in_range,
                   sorting, ranked, raised, caller, numeric, describing>>

FilterByRange ==
    /\ pc = "_filter_by_range"
    /\ sensors_in_range' = _filter_by_range(new_sensors, center, range_miles)
    /\ pc' = "_sort_by_aqi"
    /\ UNCHANGED <<heap, params, working_sensors, outdoor_sensors, new_sensors,
                   sorting, ranked, raised, caller, numeric, describing>>

\* a sort that keeps the list and the maximum of the sort before it
SortBeginStale ==
    /\ pc = "_sort_by_aqi"
    /\ position' = 0
    /\ pc' = "for sensor in sensors"
    /\ UNCHANGED <<heap, params, filtered, sorted_sensors, highest_aqi, ranked,
                   raised, caller, numeric, describing>>

\* _sort_by_aqi(sensors_in_range) is entered: sorted_sensors = [], highest_aqi = 0
SortBegin ==
    /\ pc = "_sort_by_aqi"
    /\ sorted_sensors' = <<>>
    /\ highest_aqi' = 0
    /\ position' = 0
    /\ pc' = "for sensor in sensors"
    /\ UNCHANGED <<heap, params, filtered, ranked, raised, caller, numeric, describing>>

\* One turn of the for loop.  aqi > highest_aqi raises TypeError when aqi is
\* None; so does aqi > sub_aqi when sub_aqi is None.
SortStep ==
    /\ pc = "for sensor in sensors"
    /\ position < Len(sensors_in_range)
    /\ LET sensor == sensors_in_range[position + 1]
           aqi    == Aqi(sensor)
           stops  == {i \in 1..Len(sorted_sensors) :
                         \/ Aqi(sorted_sensors[i]) = None
                         \/ Val(aqi) > Val(Aqi(sorted_sensors[i]))}
           first  == CHOOSE i \in stops : \A j \in stops : i <= j
       IN  IF aqi = None
           THEN /\ raised' = Some("TypeError")
                /\ pc' = "raised"
                /\ UNCHANGED sorting
           ELSE IF Val(aqi) > highest_aqi
           THEN /\ highest_aqi' = Val(aqi)
                /\ sorted_sensors' = Insert(sorted_sensors, 0, sensor)
                /\ position' = position + 1
                /\ UNCHANGED <<pc, raised>>
           ELSE IF stops = {}
           THEN /\ sorted_sensors' = Append(sorted_sensors, sensor)
                /\ position' = position + 1
                /\ UNCHANGED <<pc, raised, highest_aqi>>
           ELSE IF Aqi(sorted_sensors[first]) = None
           THEN /\ raised' = Some("TypeError")
                /\ pc' = "raised"
                /\ UNCHANGED sorting
           ELSE /\ sorted_sensors' = Insert(sorted_sensors, first - 1, sensor)
                /\ position' = position + 1
                /\ UNCHANGED <<pc, raised, highest_aqi>>
    /\ UNCHANGED <<heap, params, filtered, ranked, caller, numeric, describing>>

\* the loop is exhausted: return sorted_sensors
SortEnd ==
    /\ pc = "for sensor in sensors"
    /\ position = Len(sensors_in_range)
    /\ aqi_sorted_sensors' = sorted_sensors
    /\ pc' = "_filter_by_aqi"
    /\ UNCHANGED <<heap, params, filtered, sorting, aqi_filtered_sensors,
                   first_n_sensors, raised, caller, numeric, describing>>

FilterByAqi ==
    /\ pc = "_filter_by_aqi"
    /\ LET result == _filter_by_aqi(aqi_sorted_sensors, threshold)
       IN  IF result.raised # None
           THEN /\ raised' = result.raised
                /\ pc' = "raised"
                /\ UNCHANGED aqi_filtered_sensors
           ELSE /\ aqi_filtered_sensors' = result.value
                /\ pc' = "_get_n_elements"
                /\ UNCHANGED raised
    /\ UNCHANGED <<heap, params, filtered, sorting, aqi_sorted_sensors,
                   first_n_sensors, caller, numeric, describing>>

\* first_n_sensors = _get_n_elements(aqi_filtered_sensors, n); return first_n_sensors
GetNElements ==
    /\ pc = "_get_n_elements"
    /\ first_n_sensors' = _get_n_elements(aqi_filtered_sensors, n)
    /\ pc' = "returned"
    /\ UNCHANGED <<heap, params, filtered, sorting, aqi_sorted_sensors,
                   aqi_filtered_sensors, raised, caller, numeric, describing>>

Next ==
    \/ Call
    \/ CallAgain
    \/ RemoveNull
    \/ RemoveIndoor
    \/ RemoveOld
    \/ FilterByRange
    \/ SortBegin
    \/ SortStep
    \/ SortEnd
    \/ FilterByAqi
    \/ GetNElements

Spec == Init /\ [][Next]_vars

(***************************************************************************)
(* The AQI calculator and Location, called on their own.  A call takes    *)
(* its arguments from the literals below; fn names the function called,   *)
(* lits and args are the literals and the floats they denote, out is the  *)
(* value returned.                                                         *)
(***************************************************************************)
GridMax == 50

\* the float next below a float x > 0 of a full 53-bit mantissa
FPred(x) == [x EXCEPT !.m = BSub(x.m, <<1>>)]

Tenth == Op("ParseFloat", <<Dec(0, 1, 1)>>)
Boundaries == <<Pm12_1, Pm35_5, Pm55_5, Pm150_5, Pm250_5, Pm350_5, Pm500_5>>

RoundLits ==
    {Dec(k, d, 1) : k \in {0, 1, 49, 250}, d \in 0..9}
    \cup {DecLong(0, 499999999, 9, 999999940), DecLong(250, 499999999, 9, 999970000),
          Dec(2, 45, 2), Dec(7, 95, 2), Dec(100, 55, 2),
          Neg(Dec(0, 3, 1)), Neg(Dec(0, 7, 1)), Neg(Dec(2, 5, 1)), Neg(Dec(1, 0, 1))}

SubLits ==
    {<<Dec(5, 123, 3), Dec(4, 122, 3)>>,
     <<Dec(49, 494, 3), Dec(49, 494, 3)>>,
     <<Dec(49, 495, 3), DecLong(49, 494999999, 9, 999999900)>>,
     <<Dec(49, 495000001, 9), Dec(49, 495, 3)>>,
     <<DecLong(49, 495000000, 9, 100000000), Dec(49, 495, 3)>>,
     <<Dec(16, 4, 1), Dec(12, 1, 1)>>,
     <<Dec(1, 1, 3), Dec(0, 0, 1)>>,
     <<Dec(5, 5, 1), Dec(4, 25, 2)>>,
     <<Dec(0, 3, 1), Dec(0, 1, 1)>>}
    \cup {<<Dec(k, 4, 1), Dec(12, 1, 1)>> : k \in 13..35}

PmLits ==
    {Dec(0, 0, 1), Dec(0, 1, 1), Dec(6, 0, 1), Dec(12, 0, 1), Dec(12, 1, 1),
     Dec(23, 75, 2), Dec(35, 4, 1), Dec(35, 5, 1), Dec(45, 45, 2), Dec(55, 4, 1),
     Dec(55, 5, 1), Dec(102, 95, 2), Dec(150, 4, 1), Dec(150, 5, 1),
     Dec(200, 45, 2), Dec(250, 4, 1), Dec(250, 5, 1), Dec(300, 45, 2),
     Dec(350, 4, 1), Dec(350, 5, 1), Dec(425, 45, 2), Dec(500, 4, 1),
     Dec(500, 5, 1), Dec(19023, 123, 3), Dec(16, 4, 1),
     Neg(Dec(1, 0, 1)), Neg(Dec(0, 1, 3)), Neg(Dec(600, 0, 1))}
    \cup {Dec(10 * k + 7, 3, 1) : k \in 0..GridMax}

\* concentrations: the literals, each boundary less the float 0.1, and the
\* float next below each boundary
PmArgs ==
    {Op("ParseFloat", <<lit>>) : lit \in PmLits}
    \cup {Op("FSub", <<Boundaries[i], Tenth>>) : i \in DOMAIN Boundaries}
    \cup {FPred(Boundaries[i]) : i \in DOMAIN Boundaries}

\* calculate_aqi on the concentrations, computed once
PmAqiMemo == {<<pm, Op("calculate_aqi", <<pm>>)>> : pm \in PmArgs}

LatLits == {Dec(33, 6432, 4), Neg(Dec(33, 6432, 4)), Dec(0, 0, 1),
            Dec(34, 629175, 7), Neg(Dec(90, 0, 1))}
LonLits == {Neg(Dec(117, 8419, 4)), Dec(117, 8419, 4), Dec(0, 0, 1),
            Dec(180, 0, 1), Neg(Dec(0, 5, 1))}

ProperRound ==
    /\ fn = "idle"
    /\ \E lit \in RoundLits :
          /\ lits' = <<lit>>
          /\ args' = <<Op("ParseFloat", <<lit>>)>>
    /\ out' = Some(Op("_proper_round", args'))
    /\ fn' = "_proper_round"
    /\ UNCHANGED <<pipeline, describing, location>>

Subtract ==
    /\ fn = "idle"
    /\ \E pair \in SubLits :
          /\ lits' = pair
          /\ args' = <<Op("ParseFloat", <<pair[1]>>), Op("ParseFloat", <<pair[2]>>)>>
    /\ out' = Some(Op("_subtract", args'))
    /\ fn' = "_subtract"
    /\ UNCHANGED <<pipeline, describing, location>>

CalculateAqi ==
    /\ fn = "idle"
    /\ \E pm \in PmArgs : args' = <<pm>>
    /\ out' = Op("calculate_aqi", args')
    /\ fn' = "calculate_aqi"
    /\ UNCHANGED <<pipeline, describing, lits, location>>

\* two sensors are ranked: calculate_aqi is called on each concentration
RankTwo ==
    /\ fn = "idle"
    /\ \E pm1 \in PmArgs, pm2 \in PmArgs : args' = <<pm1, pm2>>
    /\ out' = <<Lookup(PmAqiMemo, args'[1]), Lookup(PmAqiMemo, args'[2])>>
    /\ fn' = "rank"
    /\ UNCHANGED <<pipeline, describing, lits, location>>

\* Location(lat, lon)
NewLocation ==
    /\ fn = "idle"
    /\ \E lat \in LatLits, lon \in LonLits :
          /\ lits' = <<lat, lon>>
          /\ args' = <<Op("ParseFloat", <<lat>>), Op("ParseFloat", <<lon>>)>>
    /\ location' = Some(Op("Location", args'))
    /\ out' = None
    /\ fn' = "Location"
    /\ UNCHANGED <<pipeline, describing>>

GetLat ==
    /\ fn \in {"Location", "get_lat", "get_lon"}
    /\ out' = Some(Op("get_lat", <<Val(location)>>))
    /\ fn' = "get_lat"
    /\ UNCHANGED <<pipeline, describing, lits, args, location>>

GetLon ==
    /\ fn \in {"Location", "get_lat", "get_lon"}
    /\ out' = Some(Op("get_lon", <<Val(location)>>))
    /\ fn' = "get_lon"
    /\ UNCHANGED <<pipeline, describing, lits, args, location>>

NextNum ==
    \/ ProperRound
    \/ Subtract
    \/ CalculateAqi
    \/ RankTwo
    \/ NewLocation
    \/ GetLat
    \/ GetLon

SpecNum == Init /\ [][NextNum]_vars

(***************************************************************************)
(* The collaborators and _get_sensor_info.  What the network or the file  *)
(* system answers is the environment's choice: urlopen raises gaierror or  *)
(* URLError, or HTTPError (a URLError) for a status outside 2xx, or gives  *)
(* a response; a file is missing or holds a text.  A text is `valid` (JSON *)
(* with the keys the getters read), `nokey` (JSON without them), `empty`   *)
(* (JSON of length 0) or `malformed` (no JSON, the text of no bytes        *)
(* included).                                                              *)
(***************************************************************************)

NetworkError(url) == [type |-> "NetworkError", url |-> url, error |-> "NETWORK"]
APIError(status, url, error) ==
    [type |-> "APIError", status |-> status, url |-> url, error |-> error]
FileError(path, error) == [type |-> "FileError", path |-> path, error |-> error]
\* an exception of Python itself: NameError, JSONDecodeError, KeyError, IndexError
Builtin(type) == [type |-> type]

SENSOR_DATA_URL == "https://www.purpleair.com/data.json"
BASE_SEARCH_URL == "https://nominatim.openstreetmap.org/search?"
BASE_REVERSE_URL == "https://nominatim.openstreetmap.org/reverse?"

Texts == {"valid", "nokey", "empty", "malformed"}
Web ==
    {[kind |-> k, status |-> 0, text |-> "none"] : k \in {"gaierror", "URLError"}}
    \cup {[kind |-> "HTTPError", status |-> 404, text |-> "none"]}
    \cup {[kind |-> "response", status |-> s, text |-> x] : s \in {200, 204}, x \in Texts}
Files == {"missing"} \cup Texts

\* json.loads(text) of a text that is JSON, about the thing asked for
Json(text, asked) == [keys |-> text = "valid", of |-> asked]

\* the try statement of an API constructor; bound tells whether the name url
\* of the except clauses is bound in the constructor
Fetch(url, bound, web) ==
    LET unreachable == IF bound THEN Raise(NetworkError(url))
                       ELSE Raise(Builtin("NameError"))
    IN  CASE web.kind = "gaierror" -> unreachable
          [] web.kind \in {"URLError", "HTTPError"} -> unreachable
          [] OTHER ->
               IF web.status # 200 THEN Raise(APIError(web.status, url, "NOT 200"))
               ELSE IF web.text = "malformed" THEN Raise(Builtin("JSONDecodeError"))
               ELSE IF web.text = "empty" THEN Raise(APIError(web.status, url, "FORMAT"))
               ELSE Return([_data |-> Json(web.text, url)])

\* the try statement of a file constructor
Load(path, file) ==
    CASE file = "missing" -> Raise(FileError(path, "MISSING"))
      [] file = "malformed" -> Raise(Builtin("JSONDecodeError"))
      [] file = "empty" -> Raise(FileError(path, "FORMAT"))
      [] OTHER -> Return([_data |-> Json(file, path)])

\* SensorAPI.__init__ never binds url
SensorAPI(web) == Fetch(SENSOR_DATA_URL, FALSE, web)
SensorFile(path_input, file) == Load(path_input, file)
ForwardAPI(location_desc, web) == Fetch(<<BASE_SEARCH_URL, location_desc>>, TRUE, web)
ForwardFile(path_input, file) == Load(path_input, file)
ReverseAPI(where, web) ==
    Fetch(<<BASE_REVERSE_URL, Op("get_lat", <<where>>), Op("get_lon", <<where>>)>>, TRUE, web)
ReverseFile(path_input, file) == Load(path_input, file)

\* get_data, get_location and get_description subscript _data with their key
Subscript(self, key) ==
    IF self._data.keys THEN Return(<<key, self._data.of>>) ELSE Raise(Builtin("KeyError"))
get_data(self) == Subscript(self, "data")
get_location(self) == Subscript(self, "lat lon")
get_description(self) == Subscript(self, "display_name")

\* "{lat_dist}/{lat_dir} {lon_dist}/{lon_dir}", as the four parts it prints
get_str(self) ==
    LET lat == self._coordinate.lat
        lon == self._coordinate.lon
    IN  <<lat.distance, lat.direction, lon.distance, lon.direction>>

Classes == {"SensorAPI", "SensorFile", "ForwardAPI", "ForwardFile", "ReverseAPI", "ReverseFile"}
IsAPI(class) == class \in {"SensorAPI", "ForwardAPI", "ReverseAPI"}
Paths == {"a.json", "b.json"}

\* the constructor of the class, then its getter if the constructor returned
Ask(class, asked, answer) ==
    LET made == CASE class = "SensorAPI" -> SensorAPI(answer)
                  [] class = "SensorFile" -> SensorFile(asked, answer)
                  [] class = "ForwardAPI" -> ForwardAPI(asked, answer)
                  [] class = "ForwardFile" -> ForwardFile(asked, answer)
                  [] class = "ReverseAPI" -> ReverseAPI(asked, answer)
                  [] OTHER -> ReverseFile(asked, answer)
    IN  IF made.raised # None THEN made
        ELSE CASE class \in {"SensorAPI", "SensorFile"} -> get_data(made.value)
               [] class \in {"ForwardAPI", "ForwardFile"} -> get_location(made.value)
               [] OTHER -> get_description(made.value)

\* project3.py asks a collaborator: _ask_for_center, _ask_for_aqi, or a
\* reverse-geocoding object
Collaborate ==
    /\ stage = "idle"
    /\ collaborator = None
    /\ \E class \in Classes :
          \E asked \in (CASE class = "ForwardAPI" -> {"Bren Hall"}
                          [] class = "ReverseAPI" -> Op("Centers", <<>>)
                          [] OTHER -> Paths),
             answer \in (IF IsAPI(class) THEN Web ELSE Files) :
                collaborator' = Some([class |-> class, asked |-> asked, answer |-> answer,
                                      result |-> Ask(class, asked, answer)])
    /\ UNCHANGED <<pipeline, numeric, chosen_sensors, reverse_input, file_count,
                   sensor_info, reverse_calls, stage, escaped>>

MaxChosen == 2
MaxPaths == 2

\* the rows with every field and a defined AQI
Selectable ==
    {i \in DOMAIN rows :
        /\ \A k \in {1, 4, 25, 27, 28} : rows[i][k] # None
        /\ ~Val(rows[i][1]).neg}

Selections ==
    UNION {{f \in [1..k -> Selectable] : \A i, j \in 1..k : f[i] = f[j] => i = j}
              : k \in 0..MaxChosen}

\* file_path_string.split() for the strings of at most MaxPaths paths
PathLists == UNION {[1..k -> Paths] : k \in 0..MaxPaths}

\* _get_sensor_info(chosen_sensors, reverse_input) is entered
GetSensorInfo ==
    /\ stage = "idle"
    /\ collaborator = None
    /\ \E chosen \in Selections :
          \E input \in {<<"nominatim", <<>>>>} \cup {<<"files", ps>> : ps \in PathLists} :
             /\ chosen_sensors' = chosen
             /\ reverse_input' = input
    /\ file_count' = 0
    /\ sensor_info' = <<>>
    /\ stage' = "for chosen_sensor in chosen_sensors"
    /\ UNCHANGED <<pipeline, numeric, collaborator, reverse_calls, escaped>>

\* a turn of the loop that forgets file_count += 1
DescribeSameFile(chosen_sensor, where, call, made, count) ==
    /\ reverse_calls' = Append(reverse_calls, call)
    /\ file_count' = file_count
    /\ IF made.raised # None
       THEN /\ escaped' = made.raised
            /\ stage' = "raised"
            /\ UNCHANGED sensor_info
       ELSE LET description == get_description(made.value)
            IN  IF description.raised # None
                THEN /\ escaped' = description.raised
                     /\ stage' = "raised"
                     /\ UNCHANGED sensor_info
                ELSE /\ sensor_info' = Append(sensor_info,
                                         <<Aqi(chosen_sensor), get_str(where), description.value>>)
                     /\ UNCHANGED <<stage, escaped>>

\* the rest of a turn of the loop once reverse_obj is constructed (made)
Describe(chosen_sensor, where, call, made, count) ==
    /\ reverse_calls' = Append(reverse_calls, call)
    /\ file_count' = count
    /\ IF made.raised # None
       THEN /\ escaped' = made.raised
            /\ stage' = "raised"
            /\ UNCHANGED sensor_info
       ELSE LET aqi_val      == Aqi(chosen_sensor)
                location_str == get_str(where)
                description  == get_description(made.value)
            IN  IF description.raised # None
                THEN /\ escaped' = description.raised
                     /\ stage' = "raised"
                     /\ UNCHANGED sensor_info
                ELSE /\ sensor_info' = Append(sensor_info,
                                         <<aqi_val, location_str, description.value>>)
                     /\ UNCHANGED <<stage, escaped>>

\* One turn of the for loop.  file_paths[file_count] raises IndexError when
\* the paths are used up.
ForChosenSensor ==
    /\ stage = "for chosen_sensor in chosen_sensors"
    /\ Len(sensor_info) < Len(chosen_sensors)
    /\ LET chosen_sensor == chosen_sensors[Len(sensor_info) + 1]
           file_paths    == reverse_input[2]
       IN  IF reverse_input[1] = "nominatim"
           THEN \E web \in Web :
                   Describe(chosen_sensor,
                            Op("Location", <<Val(rows[chosen_sensor][27]),
                                             Val(rows[chosen_sensor][28])>>),
                            [class |-> "ReverseAPI", sensor |-> chosen_sensor],
                            ReverseAPI(Op("Location", <<Val(rows[chosen_sensor][27]),
                                                        Val(rows[chosen_sensor][28])>>), web),
                            file_count)
           ELSE IF file_count >= Len(file_paths)
           THEN /\ escaped' = Some(Builtin("IndexError"))
                /\ stage' = "raised"
                /\ UNCHANGED <<file_count, sensor_info, reverse_calls>>
           ELSE \E file \in Files :
                   Describe(chosen_sensor,
                            Op("Location", <<Val(rows[chosen_sensor][27]),
                                             Val(rows[chosen_sensor][28])>>),
                            [class |-> "ReverseFile", sensor |-> chosen_sensor,
                             path |-> file_paths[file_count + 1]],
                            ReverseFile(file_paths[file_count + 1], file),
                            file_count + 1)
    /\ UNCHANGED <<pipeline, numeric, collaborator, chosen_sensors, reverse_input>>

\* the loop is exhausted: return sensor_info
ReturnSensorInfo ==
    /\ stage = "for chosen_sensor in chosen_sensors"
    /\ Len(sensor_info) = Len(chosen_sensors)
    /\ stage' = "returned"
    /\ UNCHANGED <<pipeline, numeric, collaborator, chosen_sensors, reverse_input,
                   file_count, sensor_info, reverse_calls, escaped>>

NextRun ==
    \/ Collaborate
    \/ GetSensorInfo
    \/ ForChosenSensor
    \/ ReturnSensorInfo

SpecRun == Init /\ [][NextRun]_vars

(***************************************************************************)
(* Properties of the selection pipeline (checked under Spec)               *)
(***************************************************************************)

Range(s) == {s[i] : i \in DOMAIN s}

Ended == pc \in {"returned", "raised"}

\* the single conjunction of the four filters
Keeps(sensor) ==
    /\ rows[sensor][1] # None
    /\ rows[sensor][4] # None
    /\ rows[sensor][25] # None
    /\ rows[sensor][27] # None
    /\ rows[sensor][28] # None
    /\ Val(rows[sensor][25]) # 1
    /\ Val(rows[sensor][4]) <= 3600
    /\ FLe(Lookup(DistanceMemo,
                  <<center, Location(Val(rows[sensor][27]), Val(rows[sensor][28]))>>),
           OfInt(range_miles))

\* the stable sort of a list of distinct references by descending AQI: x
\* stands after every y of a higher AQI and every earlier y of the same AQI
StableSort(s) ==
    LET Index(x) == CHOOSE i \in DOMAIN s : s[i] = x
        Before(x) == {y \in Range(s) :
                         \/ Val(Aqi(y)) > Val(Aqi(x))
                         \/ Val(Aqi(y)) = Val(Aqi(x)) /\ Index(y) < Index(x)}
    IN  [i \in DOMAIN s |-> CHOOSE x \in Range(s) : Cardinality(Before(x)) = i - 1]

Prefix(s, count) == SubSeq(s, 1, IF count < Len(s) THEN count ELSE Len(s))

\* filter by the conjunction, stable-sort, drop below the threshold, take n
Reference ==
    LET kept   == SelectSeq(sensor_data, Keeps)
        ranked_ == StableSort(kept)
        above  == SelectSeq(ranked_, LAMBDA x : Val(Aqi(x)) >= threshold)
    IN  Prefix(above, n)

\* C1: for every feed, center, radius, threshold and count, find_sensors
\* returns the sequence of the reference (one conjunction, stable descending
\* sort, threshold, first n).
C1_Reference ==
    Ended => (pc = "returned" /\ first_n_sensors = Reference)

\* C2: after every insertion of the scan, sorted_sensors is the stable
\* descending sort of the sensors scanned so far, and the scan ends with the
\* sort of its whole input.
C2_StableSort ==
    /\ pc = "for sensor in sensors" =>
          sorted_sensors = StableSort(SubSeq(sensors_in_range, 1, position))
    /\ pc # "raised"

\* C3: every returned record is a record of the feed with all five fields
\* non-null, type other than 1, age <= 3600, distance <= radius and
\* AQI >= threshold.
C3_Returned ==
    pc = "returned" =>
        \A i \in DOMAIN first_n_sensors :
            LET sensor == first_n_sensors[i]
            IN  /\ sensor \in Range(sensor_data)
                /\ Keeps(sensor)
                /\ Aqi(sensor) # None
                /\ Val(Aqi(sensor)) >= threshold

C3_Witness ==
    /\ pc = "returned"
    /\ first_n_sensors = <<1, 2>>
    /\ range_miles = 29
    /\ threshold = 50

\* C4: the result is the first min(n, survivors) elements of the ranked and
\* threshold-filtered sequence, and no call ends with an error.
C4_Truncation ==
    Ended =>
        /\ pc = "returned"
        /\ raised = None
        /\ first_n_sensors = Prefix(aqi_filtered_sensors, n)

\* C9: during a call the caller's list and the records it refers to stay as
\* they were, and every list a stage builds holds references of the caller's
\* list, each at most once.
C9_NoMutation ==
    /\ [][pc # "idle" => (sensor_data' = sensor_data /\ rows' = rows)]_vars
    /\ [](\A list \in {working_sensors, outdoor_sensors, new_sensors, sensors_in_range,
                        sorted_sensors, aqi_sorted_sensors, aqi_filtered_sensors,
                        first_n_sensors} :
              /\ Range(list) \subseteq Range(sensor_data)
              /\ Cardinality(Range(list)) = Len(list))

C9_Witness ==
    /\ pc = "returned"
    /\ sensor_data = <<5, 2, 1>>
    /\ first_n_sensors = <<1, 2>>

\* C10: a second call with the same arguments ends as the first one did.
C10_Idempotent ==
    (calls = 2 /\ Ended) => Outcome = Val(earlier)

C10_Witness ==
    /\ calls = 2
    /\ pc = "returned"
    /\ first_n_sensors = <<1, 3>>
    /\ Val(earlier).value = <<1, 3>>

\* C14: find_sensors completes for every feed: no call ends with an error.
C14_Completes ==
    pc # "raised"

(***************************************************************************)
(* Properties of the AQI calculator (checked under SpecNum)               *)
(***************************************************************************)

\* C5: calculate_aqi returns None for every concentration below 0, 501 for
\* every concentration from 500.5 up, and an integer (from 0 to 500) for
\* every concentration in between.
C5_AqiDomain ==
    fn = "calculate_aqi" =>
        LET pm == args[1]
        IN  /\ FLt(pm, Pm0) => out = None
            /\ FGe(pm, Pm500_5) => out = Some(501)
            /\ (FGe(pm, Pm0) /\ FLt(pm, Pm500_5)) =>
                  /\ out # None
                  /\ Val(out) \in 0..500

C5_Witness ==
    /\ fn = "calculate_aqi"
    /\ FLt(args[1], Pm0)
    /\ out = None

\* C6: at each boundary b calculate_aqi is the AQI the band starting at b
\* begins with; at b - 0.1 (the literal, and the float difference) it is the
\* AQI the band ending at b ends with; calculate_aqi(0) is 0.
C6_BandEnds ==
    fn = "calculate_aqi" =>
        LET pm    == args[1]
            low   == <<51, 101, 151, 201, 301, 401, 501>>
            high  == <<50, 100, 150, 200, 300, 400, 500>>
            below == <<Dec(12, 0, 1), Dec(35, 4, 1), Dec(55, 4, 1), Dec(150, 4, 1),
                       Dec(250, 4, 1), Dec(350, 4, 1), Dec(500, 4, 1)>>
        IN  /\ FEq(pm, Pm0) => out = Some(0)
            /\ \A i \in DOMAIN Boundaries :
                  /\ FEq(pm, Boundaries[i]) => out = Some(low[i])
                  /\ FEq(pm, FSub(Boundaries[i], Tenth)) => out = Some(high[i])
                  /\ FEq(pm, ParseFloat(below[i])) => out = Some(high[i])

C6_Witness ==
    /\ fn = "calculate_aqi"
    /\ FEq(args[1], FSub(Pm500_5, Tenth))
    /\ out = Some(500)

\* the tenths digit of |x|: floor(|x| * 10) mod 10, computed on the exact
\* value of the float
TenthsDigit(x) ==
    LET tens == BMulSmall(x.m, 10)
    IN  BModSmall(IF x.e >= 0 THEN BShl(tens, x.e) ELSE BShr(tens, -x.e), 10)

Nanos(lit) ==
    [neg |-> lit.neg,
     mag |-> BAdd(BMul(BFromInt(lit.int), BFromInt(10 ^ 9)),
                  BFromInt(lit.frac * 10 ^ (9 - lit.scale)))]

\* C8: when both operands are written with at most 9 decimals, _subtract
\* returns exactly the float of their decimal difference.
C8_ExactDifference ==
    (fn = "_subtract" /\ lits[1].more = 0 /\ lits[2].more = 0) =>
        LET diff == ISub(Nanos(lits[1]), Nanos(lits[2]))
        IN  FEq(Val(out), Float(diff.neg, diff.mag, BFromInt(10 ^ 9), 0))

\* C12: a Location keeps an unsigned distance with a direction for each
\* axis, S or W exactly when the signed value is negative; get_lat and
\* get_lon give the signed values back; the stored coordinate never changes
\* once the Location is constructed.
C12_LocationRoundTrip ==
    /\ [](location # None =>
            LET coord == Val(location)._coordinate
            IN  /\ ~coord.lat.distance.neg
                /\ ~coord.lon.distance.neg
                /\ coord.lat.direction = (IF FLt(args[1], FZero) THEN "S" ELSE "N")
                /\ coord.lon.direction = (IF FLt(args[2], FZero) THEN "W" ELSE "E")
                /\ fn = "get_lat" => FEq(Val(out), args[1])
                /\ fn = "get_lon" => FEq(Val(out), args[2]))
    /\ [][location # None => location' = location]_vars

C12_Witness ==
    /\ fn = "get_lat"
    /\ FLt(args[1], FZero)
    /\ Val(location)._coordinate.lat.direction = "S"
    /\ FEq(Val(out), args[1])

\* C15: for concentrations 0 <= c1 <= c2, calculate_aqi(c1) <= calculate_aqi(c2).
C15_Monotone ==
    (fn = "rank" /\ FGe(args[1], Pm0) /\ FLe(args[1], args[2])) =>
        /\ out[1] # None
        /\ out[2] # None
        /\ Val(out[1]) <= Val(out[2])

C15_Witness ==
    /\ fn = "rank"
    /\ args = <<FPred(Pm12_1), Pm12_1>>
    /\ out = <<Some(50), Some(51)>>

(***************************************************************************)
(* Properties of the collaborators and _get_sensor_info (checked under    *)
(* SpecRun)                                                                *)
(***************************************************************************)

\* C11: a collaborator fails only with NetworkError (NETWORK) on a transport
\* failure, APIError (status, url, NOT 200) on a status other than 200,
\* APIError (FORMAT) on a malformed or empty payload, or FileError (path,
\* MISSING or FORMAT) on an absent or a malformed or empty file.
C11_ErrorKinds ==
    collaborator # None =>
        LET c       == Val(collaborator)
            failure == c.result.raised
            Is(type, error) ==
                /\ failure # None
                /\ Val(failure).type = type
                /\ Val(failure).error = error
        IN  /\ failure # None =>
                  Val(failure).type \in {"NetworkError", "APIError", "FileError"}
            /\ IsAPI(c.class) =>
                  /\ c.answer.kind \in {"gaierror", "URLError"} =>
                        Is("NetworkError", "NETWORK")
                  /\ (c.answer.kind \in {"HTTPError", "response"} /\ c.answer.status # 200) =>
                        (Is("APIError", "NOT 200") /\ Val(failure).status = c.answer.status)
                  /\ (c.answer.kind = "response" /\ c.answer.status = 200
                        /\ c.answer.text \in {"empty", "malformed"}) =>
                        Is("APIError", "FORMAT")
            /\ ~IsAPI(c.class) =>
                  /\ c.answer = "missing" =>
                        (Is("FileError", "MISSING") /\ Val(failure).path = c.asked)
                  /\ c.answer \in {"empty", "malformed"} =>
                        (Is("FileError", "FORMAT") /\ Val(failure).path = c.asked)

\* sensor_info has one entry for each chosen sensor, in order: its AQI, its
\* location and the description of the one reverse-geocoding object made
\* for it, which in file mode read the path of the same index
OneEntryEach ==
    /\ Len(sensor_info) = Len(chosen_sensors)
    /\ Len(reverse_calls) = Len(chosen_sensors)
    /\ \A i \in DOMAIN chosen_sensors :
          LET sensor == chosen_sensors[i]
              where  == Location(Val(rows[sensor][27]), Val(rows[sensor][28]))
          IN  /\ sensor_info[i][1] = Aqi(sensor)
              /\ sensor_info[i][2] = get_str(where)
              /\ reverse_calls[i].sensor = sensor
              /\ IF reverse_input[1] = "nominatim"
                 THEN /\ reverse_calls[i].class = "ReverseAPI"
                      /\ sensor_info[i][3] =
                            <<"display_name",
                              <<BASE_REVERSE_URL, get_lat(where), get_lon(where)>>>>
                 ELSE /\ reverse_calls[i].class = "ReverseFile"
                      /\ i <= Len(reverse_input[2])
                      /\ reverse_calls[i].path = reverse_input[2][i]
                      /\ sensor_info[i][3] = <<"display_name", reverse_input[2][i]>>

=============================================================================
